---- MODULE Spec2Model ----
(***************************************************************************)
(* A model of the SNMP v2c client in                                       *)
(* cmd/scollector/_third_party/github.com/mjibson/snmp/snmp.go:            *)
(* the binding comparator (Binding.less), the response validator (check),  *)
(* the value normalizer (convertClass, Binding.unmarshal), the text       *)
(* conversion (convertType, toString), the request-id source (nextID) and  *)
(* the transport round trip (Transport.RoundTrip) run by callers that      *)
(* share one connection to an agent and validate what they get.            *)
(***************************************************************************)
EXTENDS Integers, Sequences, FiniteSets, TLC

VARIABLES
    la, lb, lc,      \* less: the three bindings compared
    lessOut,         \* less: the results of the comparisons, or NotRun
    creq, cresp,     \* check: the request and the response handed to check
    checkOut,        \* check: what check returned, or NotRun
    pc,              \* RoundTrip: where each caller's call stands
    rq,              \* RoundTrip: each caller's Request (the caller owns it)
    buf,             \* RoundTrip: each caller's local buf (packet or reply)
    ret,             \* RoundTrip: what each caller's call returned
    ops,             \* the operations each call made on tr.Conn, in order
    wire,            \* datagrams written to the connection, not yet answered
    inbox,           \* datagrams waiting in the socket's receive queue
    unm,             \* per caller: the bindings passed to unmarshal so far
    chk,             \* per caller: what check said of the Response it got
    idGen,           \* nextID: the values the producer has generated, in order
    idPending,       \* nextID: the generated value the producer is sending
    idGot,           \* nextID: per receiver, the draws it received
    tsIn, tsOut,     \* toString: the byte string and the result
    ccIn, ccOut      \* convertClass: the raw value and the results

lessVars  == <<la, lb, lc, lessOut>>
checkVars == <<creq, cresp, checkOut>>
rtVars    == <<pc, rq, buf, ret, ops, wire, inbox, unm, chk>>
idVars    == <<idGen, idPending, idGot>>
tsVars    == <<tsIn, tsOut>>
ccVars    == <<ccIn, ccOut>>
auxVars   == <<idVars, tsVars, ccVars>>
vars      == <<lessVars, checkVars, rtVars, auxVars>>

NotRun == [outcome |-> "not run"]

\* ---------------------------------------------------------------- bounds

\* Identifiers compared by less have at most OidMaxLen components,
\* each in 0..OidMaxComp.
OidMaxLen == 2
OidMaxComp == 1
\* check: the request has at most MaxReqBindings bindings, the response at
\* most MaxRespBindings.
MaxReqBindings == 2
MaxRespBindings == 2

\* ------------------------------------------------------- values, bindings

\* An asn1.RawValue as the decoder leaves it: the identifier octet of the
\* encoding is FullBytes[1].
RawValue(class, tag, content) ==
    [Class |-> class, Tag |-> tag,
     FullBytes |-> <<class * 64 + tag, Len(content)>> \o content]

\* Reserved binding values (package variables: Class and Tag only).
null           == [Class |-> 0, Tag |-> 5, FullBytes |-> <<>>]
noSuchObject   == [Class |-> 2, Tag |-> 0, FullBytes |-> <<>>]
noSuchInstance == [Class |-> 2, Tag |-> 1, FullBytes |-> <<>>]
endOfMibView   == [Class |-> 2, Tag |-> 2, FullBytes |-> <<>>]

Binding(name, value) == [Name |-> name, Value |-> value]

\* Values as they come off the wire.
wireInteger   == RawValue(0, 2, <<7>>)
wireNull      == RawValue(0, 5, <<>>)
wireNoObject  == RawValue(2, 0, <<>>)
wireNoInst    == RawValue(2, 1, <<>>)
wireEndOfMib  == RawValue(2, 2, <<>>)
wireCounter32 == RawValue(1, 1, <<9>>)

SeqsUpTo(S, n) == UNION {[1..k -> S] : k \in 0..n}

\* ------------------------------------------------------------ Binding.less

\* One of the three for loops of less: compares a[i] with b[i] for the
\* (0-based) i in from..n-1 and gives `tail' when the loop runs out.
RECURSIVE lessLoop(_, _, _, _, _)
lessLoop(a, b, i, n, tail) ==
    IF i >= n THEN tail
    ELSE CASE a[i + 1] < b[i + 1] -> "true"
           [] a[i + 1] = b[i + 1] -> lessLoop(a, b, i + 1, n, tail)
           [] a[i + 1] > b[i + 1] -> "false"

\* A mutant of less: an identifier does not precede its extensions.
lessPrefixNotLess(a, b) ==
    CASE Len(a.Name) < Len(b.Name) ->
            lessLoop(a.Name, b.Name, 0, Len(a.Name), "false")
      [] Len(a.Name) = Len(b.Name) ->
            lessLoop(a.Name, b.Name, 0, Len(a.Name), "false")
      [] Len(a.Name) > Len(b.Name) ->
            lessLoop(a.Name, b.Name, 0, Len(b.Name), "false")
      [] OTHER -> "panic"

\* A mutant of less: a longer identifier whose compared components are all
\* equal precedes the shorter one too.
lessLongerAlsoLess(a, b) ==
    CASE Len(a.Name) < Len(b.Name) ->
            lessLoop(a.Name, b.Name, 0, Len(a.Name), "true")
      [] Len(a.Name) = Len(b.Name) ->
            lessLoop(a.Name, b.Name, 0, Len(a.Name), "false")
      [] Len(a.Name) > Len(b.Name) ->
            lessLoop(a.Name, b.Name, 0, Len(b.Name), "true")
      [] OTHER -> "panic"

\* a.less(b): "true", "false", or "panic" for the panic("unreached") that
\* follows the switch.
less(a, b) ==
    CASE Len(a.Name) < Len(b.Name) ->
            lessLoop(a.Name, b.Name, 0, Len(a.Name), "true")
      [] Len(a.Name) = Len(b.Name) ->
            lessLoop(a.Name, b.Name, 0, Len(a.Name), "false")
      [] Len(a.Name) > Len(b.Name) ->
            lessLoop(a.Name, b.Name, 0, Len(b.Name), "false")
      [] OTHER -> "panic"

Oids == SeqsUpTo(0..OidMaxComp, OidMaxLen)
LessValues == {null, wireInteger}

InitLess ==
    /\ la \in {Binding(n, v) : n \in Oids, v \in LessValues}
    /\ lb \in {Binding(n, v) : n \in Oids, v \in LessValues}
    /\ lc \in {Binding(n, null) : n \in Oids}
    /\ lessOut = NotRun

IdleLess ==
    /\ la = Binding(<<>>, null)
    /\ lb = Binding(<<>>, null)
    /\ lc = Binding(<<>>, null)
    /\ lessOut = NotRun

\* The caller compares the three bindings in every order.
Compare ==
    /\ lessOut = NotRun
    /\ lessOut' = [outcome |-> "done",
                   aa |-> less(la, la), ab |-> less(la, lb),
                   ba |-> less(lb, la), bc |-> less(lb, lc),
                   cb |-> less(lc, lb), ac |-> less(la, lc),
                   ca |-> less(lc, la)]
    /\ UNCHANGED <<la, lb, lc, checkVars, rtVars, auxVars>>

\* ---------------------------------------------------------- error taxonomy

\* errorText: the response errors specified in RFC 3416.
errorText ==
    [e \in 0..18 |->
        CASE e = 0 -> "no error"
          [] e = 1 -> "too big"
          [] e = 2 -> "no such name"
          [] e = 3 -> "bad value"
          [] e = 4 -> "read only"
          [] e = 5 -> "gen err"
          [] e = 6 -> "no access"
          [] e = 7 -> "wrong type"
          [] e = 8 -> "wrong length"
          [] e = 9 -> "wrong encoding"
          [] e = 10 -> "wrong value"
          [] e = 11 -> "no creation"
          [] e = 12 -> "inconsistent value"
          [] e = 13 -> "resource unavailable"
          [] e = 14 -> "commit failed"
          [] e = 15 -> "undo failed"
          [] e = 16 -> "authorization error"
          [] e = 17 -> "not writable"
          [] e = 18 -> "inconsistent name"]

\* errorStatus.String: the text of e, "code <e>" for a code not in the table.
errorStatusString(e) ==
    IF e \in DOMAIN errorText THEN errorText[e] ELSE "code " \o ToString(e)

\* -------------------------------------------------------------------- check

\* What check returns. An error is the text fmt.Errorf builds, kept in its
\* parts: "<marker>: binding <binding>: <name>: <msg>: <text>", each part
\* present only where the code formats it.
Nil == [outcome |-> "nil", marker |-> "", binding |-> <<>>, name |-> <<>>,
        msg |-> "", text |-> ""]
Panic == [Nil EXCEPT !.outcome = "panic"]
Errorf(msg) == [Nil EXCEPT !.outcome = "error", !.msg = msg]
NameErrorf(name, msg) == [Errorf(msg) EXCEPT !.name = <<name>>]

\* The deferred function of check: a non-nil error is wrapped.
deferWrap(r) ==
    IF r.outcome = "error" THEN [r EXCEPT !.marker = "invalid response"]
    ELSE r

\* hasPrefix(instance, prefix).
hasPrefix(instance, prefix) ==
    IF Len(instance) < Len(prefix) THEN FALSE
    ELSE \A i \in 1..Len(prefix) : instance[i] = prefix[i]

\* The eq closure of check: class and tag only.
eq(a, b) == a.Class = b.Class /\ a.Tag = b.Tag

\* A mutant of checkBinding: the prefix is tested before the value.
checkBindingPrefixFirst(b) ==
    IF ~hasPrefix(b.Name, <<1, 3>>)
    THEN NameErrorf(b.Name, "missing [1 3] prefix")
    ELSE CASE eq(b.Value, noSuchObject) -> NameErrorf(b.Name, "no such object")
           [] eq(b.Value, noSuchInstance) ->
                NameErrorf(b.Name, "no such instance")
           [] eq(b.Value, endOfMibView) -> NameErrorf(b.Name, "end of mib view")
           [] eq(b.Value, null) -> NameErrorf(b.Name, "unexpected null")
           [] OTHER -> Nil

\* The body of the loop over resp.Bindings, for one binding: its error, or
\* Nil when the loop goes on.
checkBinding(b) ==
    CASE eq(b.Value, noSuchObject)   -> NameErrorf(b.Name, "no such object")
      [] eq(b.Value, noSuchInstance) -> NameErrorf(b.Name, "no such instance")
      [] eq(b.Value, endOfMibView)   -> NameErrorf(b.Name, "end of mib view")
      [] eq(b.Value, null)           -> NameErrorf(b.Name, "unexpected null")
      [] OTHER -> IF ~hasPrefix(b.Name, <<1, 3>>)
                  THEN NameErrorf(b.Name, "missing [1 3] prefix")
                  ELSE Nil

\* The loop over resp.Bindings from (1-based) position k on.
RECURSIVE checkBindings(_, _)
checkBindings(bs, k) ==
    IF k > Len(bs) THEN Nil
    ELSE IF checkBinding(bs[k]).outcome # "nil" THEN checkBinding(bs[k])
    ELSE checkBindings(bs, k + 1)

\* The error-status rule: req.Bindings[i] is indexed under a guard on
\* len(resp.Bindings), so it panics when i is past the request's bindings.
checkErrorStatus(resp, req) ==
    LET e == resp.ErrorStatus
        i == resp.ErrorIndex
        err == [Errorf("server error") EXCEPT !.text = errorStatusString(e)]
    IN  IF i >= 0 /\ i < Len(resp.Bindings)
        THEN IF i < Len(req.Bindings)
             THEN [err EXCEPT !.binding = <<req.Bindings[i + 1]>>]
             ELSE Panic
        ELSE err

\* A mutant of checkCount: no exception for GetBulk.
checkCountNoBulk(resp, req) ==
    LET n == Len(resp.Bindings)
    IN  CASE n = 0 -> Errorf("no bindings")
          [] n # 0 /\ n < Len(req.Bindings) -> Errorf("missing bindings")
          [] n # 0 /\ n > Len(req.Bindings) -> Errorf("extraneous bindings")
          [] OTHER -> Nil

\* The binding-count rule: its error, or Nil when no case applies.
checkCount(resp, req) ==
    LET n == Len(resp.Bindings)
    IN  CASE n = 0 -> Errorf("no bindings")
          [] n # 0 /\ n < Len(req.Bindings) -> Errorf("missing bindings")
          [] n # 0 /\ n > Len(req.Bindings) /\ req.Type # "GetBulk" ->
                Errorf("extraneous bindings")
          [] OTHER -> Nil

\* A mutant of check: the id is not compared.
checkNoID(resp, req) ==
    deferWrap(
        IF resp.ErrorStatus # 0 THEN checkErrorStatus(resp, req)
        ELSE IF checkCount(resp, req).outcome # "nil" THEN checkCount(resp, req)
        ELSE checkBindings(resp.Bindings, 1))

\* A mutant of check: the error status is looked at before the id.
checkStatusBeforeID(resp, req) ==
    deferWrap(
        IF resp.ErrorStatus # 0 THEN checkErrorStatus(resp, req)
        ELSE IF resp.ID # req.ID THEN Errorf("id mismatch")
        ELSE IF checkCount(resp, req).outcome # "nil" THEN checkCount(resp, req)
        ELSE checkBindings(resp.Bindings, 1))

\* check(resp, req).
check(resp, req) ==
    deferWrap(
        IF resp.ID # req.ID THEN Errorf("id mismatch")
        ELSE IF resp.ErrorStatus # 0 THEN checkErrorStatus(resp, req)
        ELSE IF checkCount(resp, req).outcome # "nil" THEN checkCount(resp, req)
        ELSE checkBindings(resp.Bindings, 1))

\* The inputs of check.
RequestIDs == {1, 42}
Types == {"Get", "GetNext", "GetBulk"}
sysDescr == <<1, 3, 6, 1>>
sysName  == <<1, 3, 6, 5>>
sysUpTime == <<1, 3, 6, 3>>
\* The names a request asks for, in this order.
ReqNames == <<sysDescr, sysName, sysUpTime, sysDescr>>
ReqBindings(k) == [i \in 1..k |-> Binding(ReqNames[i], null)]
\* The bindings an agent may answer with: well-formed ones, exceptional
\* values, a null, and names outside 1.3 (too short, or another subtree).
RespBindingSet ==
    {Binding(sysDescr, wireInteger), Binding(sysName, wireCounter32),
     Binding(sysDescr, wireNull), Binding(sysDescr, wireNoObject),
     Binding(sysDescr, wireNoInst), Binding(sysName, wireEndOfMib),
     Binding(<<1>>, wireInteger), Binding(<<1, 2, 6>>, wireInteger),
     Binding(<<1>>, wireNull)}
ErrorStatuses == {0, 2, 19}

Request(id, type, bindings, nonRep, maxRep) ==
    [ID |-> id, Type |-> type, Bindings |-> bindings,
     NonRepeaters |-> nonRep, MaxRepetitions |-> maxRep]
Response(id, errorStatus, errorIndex, bindings) ==
    [ID |-> id, ErrorStatus |-> errorStatus, ErrorIndex |-> errorIndex,
     Bindings |-> bindings]

InitCheck ==
    /\ creq \in {Request(id, t, ReqBindings(k), 0, 0) :
                    id \in RequestIDs, t \in Types, k \in 0..MaxReqBindings}
    /\ cresp \in {Response(id, e, i, bs) :
                    id \in RequestIDs, e \in ErrorStatuses,
                    i \in -1..MaxRespBindings,
                    bs \in SeqsUpTo(RespBindingSet, MaxRespBindings)}
    /\ checkOut = NotRun

IdleCheck ==
    /\ creq = Request(1, "Get", <<>>, 0, 0)
    /\ cresp = Response(1, 0, 0, <<>>)
    /\ checkOut = NotRun

\* The caller validates the response against its request.
Check ==
    /\ checkOut = NotRun
    /\ checkOut' = check(cresp, creq)
    /\ UNCHANGED <<creq, cresp, lessVars, rtVars, auxVars>>

\* ------------------------------------------------- convertClass, unmarshal

SetFirst(bytes, b) == [bytes EXCEPT ![1] = b]

\* v.FullBytes[0] = ... is the first statement of both cases: with no encoded
\* bytes the index is out of range, and convertClass panics before it has
\* written v.Class or v.Tag.
convertClassPanics(v) ==
    v.Class = 1 /\ v.Tag \in {0, 1, 2, 3, 4, 6} /\ Len(v.FullBytes) = 0

\* convertClass(v): the value v points to after the call.
convertClass(v) ==
    IF v.Class # 1 \/ convertClassPanics(v) THEN v
    ELSE CASE v.Tag \in {0, 4} ->
                [Class |-> 0, Tag |-> 4, FullBytes |-> SetFirst(v.FullBytes, 4)]
           [] v.Tag \in {1, 2, 3, 6} ->
                [Class |-> 0, Tag |-> 2, FullBytes |-> SetFirst(v.FullBytes, 2)]
           [] OTHER -> v

\* asn1.Unmarshal(b.Value.FullBytes, v) for a target v of Go type *int or
\* *[]byte: nil when the identifier octet is the universal tag of the
\* target's type, a structural error otherwise.
asn1UnmarshalValue(bytes, target) ==
    IF \/ target = "int" /\ bytes[1] = 2
       \/ target = "[]byte" /\ bytes[1] = 4
    THEN "" ELSE "type mismatch"

\* ------------------------------------------------------ Transport.RoundTrip

Callers == {1, 2}
Community == "public"
\* len(buf) of the receive buffer.
BufSize == 10000

\* asn1.Marshal of an ObjectIdentifier fails on fewer than two components
\* and on components outside the first two arcs' ranges.
validOid(oid) ==
    /\ Len(oid) >= 2
    /\ oid[1] <= 2
    /\ (oid[1] < 2 => oid[2] < 40)

\* asn1.Marshal of a RawValue: FullBytes when set, else the encoding of
\* class, tag and the (empty) Bytes.
marshalRawValue(v) ==
    IF v.FullBytes # <<>> THEN v.FullBytes ELSE <<v.Class * 64 + v.Tag, 0>>

\* The decoder's RawValue for an encoded value: class and tag are read from
\* the identifier octet.
parseRawValue(bytes) ==
    [Class |-> bytes[1] \div 64, Tag |-> bytes[1] % 32, FullBytes |-> bytes]

marshalBindings(bs) ==
    [i \in 1..Len(bs) |->
        [Name |-> bs[i].Name, Value |-> marshalRawValue(bs[i].Value)]]

\* A message as it is on the wire: the envelope, the PDU's tag, its three
\* integer fields in order, and its bindings.
Message(tag, f1, f2, f3, bindings) ==
    [Version |-> 1, Community |-> Community, Tag |-> tag,
     Data |-> <<f1, f2, f3>>, Bindings |-> bindings]
NoMessage == Message(-1, 0, 0, 0, <<>>)
\* A datagram in the receive queue: a message, padded to size bytes.
Datagram(m, size) == [msg |-> m, size |-> size]

\* The struct p that the switch on req.Type fills in, as asn1.Marshal
\* lays it out. The GetBulk case sets p.Data.NonRepeaters to 0.
pdu(r) ==
    CASE r.Type = "Get" ->
            Message(0, r.ID, 0, 0, marshalBindings(r.Bindings))
      [] r.Type = "GetNext" ->
            Message(1, r.ID, 0, 0, marshalBindings(r.Bindings))
      [] r.Type = "GetBulk" ->
            Message(5, r.ID, 0, r.MaxRepetitions,
                    marshalBindings(r.Bindings))

\* The err of asn1.Marshal(p).
marshalErr(r) ==
    IF \A i \in 1..Len(r.Bindings) : validOid(r.Bindings[i].Name)
    THEN "" ELSE "invalid object identifier"

\* What a call returned: a Response and nil, nil and an error, or a panic.
NoReturn == [outcome |-> "none", resp |-> <<>>, err |-> ""]
ReturnErr(e) == [outcome |-> "error", resp |-> <<>>, err |-> e]
ReturnResp(r) == [outcome |-> "response", resp |-> <<r>>, err |-> ""]
Panicked(e) == [outcome |-> "panic", resp |-> <<>>, err |-> e]

Op(name, ok) == [op |-> name, ok |-> ok]

\* A mutant of prepare: the loop stops one binding short.
prepareSkipsLast(r) ==
    [r EXCEPT !.Bindings =
        [i \in 1..Len(r.Bindings) |->
            IF i < Len(r.Bindings) THEN Binding(r.Bindings[i].Name, null)
            ELSE r.Bindings[i]]]

\* The loop that overwrites every binding's value with null.
prepare(r) ==
    [r EXCEPT !.Bindings =
        [i \in 1..Len(r.Bindings) |-> Binding(r.Bindings[i].Name, null)]]

\* A mutant of RTEncode: the default case of the switch returns an error.
RTEncodeReturnsError(c) ==
    /\ pc[c] = "start"
    /\ rq' = [rq EXCEPT ![c] = prepare(rq[c])]
    /\ IF rq[c].Type \notin {"Get", "GetNext", "GetBulk"}
       THEN /\ pc' = [pc EXCEPT ![c] = "done"]
            /\ ret' = [ret EXCEPT ![c] = ReturnErr("unsupported type")]
            /\ buf' = buf
       ELSE IF marshalErr(prepare(rq[c])) # ""
       THEN /\ pc' = [pc EXCEPT ![c] = "done"]
            /\ ret' = [ret EXCEPT ![c] = ReturnErr(marshalErr(prepare(rq[c])))]
            /\ buf' = buf
       ELSE /\ pc' = [pc EXCEPT ![c] = "write"]
            /\ buf' = [buf EXCEPT ![c] = pdu(prepare(rq[c]))]
            /\ ret' = ret
    /\ UNCHANGED <<ops, wire, inbox, unm, chk, lessVars, checkVars, auxVars>>

\* Lines 179-240: prepare, the switch on req.Type with asn1.Marshal, and
\* the test of its err.
RTEncode(c) ==
    /\ pc[c] = "start"
    /\ rq' = [rq EXCEPT ![c] = prepare(rq[c])]
    /\ IF rq[c].Type \notin {"Get", "GetNext", "GetBulk"}
       THEN /\ pc' = [pc EXCEPT ![c] = "panic"]
            /\ ret' = [ret EXCEPT ![c] = Panicked("unsupported type")]
            /\ buf' = buf
       ELSE IF marshalErr(prepare(rq[c])) # ""
       THEN /\ pc' = [pc EXCEPT ![c] = "done"]
            /\ ret' = [ret EXCEPT ![c] = ReturnErr(marshalErr(prepare(rq[c])))]
            /\ buf' = buf
       ELSE /\ pc' = [pc EXCEPT ![c] = "write"]
            /\ buf' = [buf EXCEPT ![c] = pdu(prepare(rq[c]))]
            /\ ret' = ret
    /\ UNCHANGED <<ops, wire, inbox, unm, chk, lessVars, checkVars, auxVars>>

\* Lines 241-243: tr.Conn.Write(buf) succeeds and the datagram is on its way.
RTWrite(c) ==
    /\ pc[c] = "write"
    /\ ops' = [ops EXCEPT ![c] = Append(@, Op("Write", TRUE))]
    /\ wire' = Append(wire, buf[c])
    /\ pc' = [pc EXCEPT ![c] = "deadline"]
    /\ UNCHANGED <<rq, buf, ret, inbox, unm, chk, lessVars, checkVars, auxVars>>

\* Lines 241-243: tr.Conn.Write(buf) fails.
RTWriteFails(c) ==
    /\ pc[c] = "write"
    /\ ops' = [ops EXCEPT ![c] = Append(@, Op("Write", FALSE))]
    /\ pc' = [pc EXCEPT ![c] = "done"]
    /\ ret' = [ret EXCEPT ![c] = ReturnErr("write error")]
    /\ UNCHANGED <<rq, buf, wire, inbox, unm, chk, lessVars, checkVars, auxVars>>

\* Lines 244-247: the receive buffer is made and the read deadline is set.
RTSetReadDeadline(c) ==
    /\ pc[c] = "deadline"
    /\ ops' = [ops EXCEPT ![c] = Append(@, Op("SetReadDeadline", TRUE))]
    /\ buf' = [buf EXCEPT ![c] = NoMessage]
    /\ pc' = [pc EXCEPT ![c] = "read"]
    /\ UNCHANGED <<rq, ret, wire, inbox, unm, chk, lessVars, checkVars, auxVars>>

\* Lines 244-247: SetReadDeadline fails.
RTSetReadDeadlineFails(c) ==
    /\ pc[c] = "deadline"
    /\ ops' = [ops EXCEPT ![c] = Append(@, Op("SetReadDeadline", FALSE))]
    /\ buf' = [buf EXCEPT ![c] = NoMessage]
    /\ pc' = [pc EXCEPT ![c] = "done"]
    /\ ret' = [ret EXCEPT ![c] = ReturnErr("set deadline error")]
    /\ UNCHANGED <<rq, wire, inbox, unm, chk, lessVars, checkVars, auxVars>>

Min(x, y) == IF x < y THEN x ELSE y

\* A mutant of RTRead: n is not compared with the length of the buffer.
RTReadNoLimit(c) ==
    /\ pc[c] = "read"
    /\ inbox # <<>>
    /\ ops' = [ops EXCEPT ![c] = Append(@, Op("Read", TRUE))]
    /\ inbox' = Tail(inbox)
    /\ pc' = [pc EXCEPT ![c] = "decode"]
    /\ buf' = [buf EXCEPT ![c] = Head(inbox).msg]
    /\ UNCHANGED <<ret, rq, wire, unm, chk, lessVars, checkVars, auxVars>>

\* Lines 248-254: tr.Conn.Read(buf) takes the next datagram of the socket,
\* cut to the buffer, and a read that fills the buffer is refused.
RTRead(c) ==
    /\ pc[c] = "read"
    /\ inbox # <<>>
    /\ ops' = [ops EXCEPT ![c] = Append(@, Op("Read", TRUE))]
    /\ inbox' = Tail(inbox)
    /\ LET n == Min(Head(inbox).size, BufSize)
       IN  IF n = BufSize
           THEN /\ pc' = [pc EXCEPT ![c] = "done"]
                /\ ret' = [ret EXCEPT ![c] = ReturnErr("response too big")]
                /\ buf' = buf
           ELSE /\ pc' = [pc EXCEPT ![c] = "decode"]
                /\ buf' = [buf EXCEPT ![c] = Head(inbox).msg]
                /\ ret' = ret
    /\ UNCHANGED <<rq, wire, unm, chk, lessVars, checkVars, auxVars>>

\* A mutant of RTReadFails: the failed Read is tried again.
RTReadRetries(c) ==
    /\ pc[c] = "read"
    /\ ops' = [ops EXCEPT ![c] = Append(@, Op("Read", FALSE))]
    /\ Len(ops[c]) < 4
    /\ UNCHANGED <<pc, ret, rq, buf, wire, inbox, unm, chk, lessVars, checkVars, auxVars>>

\* Lines 248-251: tr.Conn.Read(buf) fails (the deadline passes, or another
\* I/O error).
RTReadFails(c) ==
    /\ pc[c] = "read"
    /\ ops' = [ops EXCEPT ![c] = Append(@, Op("Read", FALSE))]
    /\ pc' = [pc EXCEPT ![c] = "done"]
    /\ ret' = [ret EXCEPT ![c] = ReturnErr("read error")]
    /\ UNCHANGED <<rq, buf, wire, inbox, unm, chk, lessVars, checkVars, auxVars>>

\* The Response built from the decoded struct p: each binding's Value is
\* the RawValue the decoder read.
decodeResponse(m) ==
    Response(m.Data[1], m.Data[2], m.Data[3],
             [i \in 1..Len(m.Bindings) |->
                 Binding(m.Bindings[i].Name, parseRawValue(m.Bindings[i].Value))])

\* Lines 255-269: asn1.Unmarshal(buf[:n], &p) into a struct whose Data is
\* tagged 2, and the Response made of it.
RTDecode(c) ==
    /\ pc[c] = "decode"
    /\ pc' = [pc EXCEPT ![c] = "done"]
    /\ ret' = [ret EXCEPT ![c] =
                  IF buf[c].Tag # 2 THEN ReturnErr("asn1: structure error")
                  ELSE ReturnResp(decodeResponse(buf[c]))]
    /\ UNCHANGED <<rq, buf, ops, wire, inbox, unm, chk, lessVars, checkVars, auxVars>>

\* The binding b points to after b.unmarshal(v): convertClass(&b.Value).
unmarshalled(b) == Binding(b.Name, convertClass(b.Value))

\* The err of b.unmarshal(v) for a target of the given Go type.
unmarshalErr(b, target) ==
    asn1UnmarshalValue(unmarshalled(b).Value.FullBytes, target)

\* The caller decodes binding i of the Response it got: b.unmarshal(v).
Unmarshal(c, i, target) ==
    /\ ret[c].outcome = "response"
    /\ i \in 1..Len(ret[c].resp[1].Bindings)
    /\ i \notin DOMAIN unm[c]
    /\ target \in {"int", "[]byte"}
    /\ ret' = [ret EXCEPT ![c].resp[1].Bindings[i] = unmarshalled(@)]
    /\ unm' = [unm EXCEPT ![c] =
                  [j \in DOMAIN @ \cup {i} |->
                      IF j = i THEN unmarshalErr(ret[c].resp[1].Bindings[i], target)
                      ELSE @[j]]]
    /\ UNCHANGED <<pc, rq, buf, ops, wire, inbox, chk, lessVars, checkVars, auxVars>>

wireIpAddress == RawValue(1, 0, <<10, 0, 0, 1>>)

\* The response PDU an agent makes for request m, with value v everywhere.
AgentResponse(m, v) ==
    Message(2, m.Data[1], 0, 0,
            [i \in 1..Len(m.Bindings) |->
                [Name |-> m.Bindings[i].Name, Value |-> v.FullBytes]])

\* The agent's answers to a request: the request's id, no error, the names
\* asked for with an integer, a Counter32 or an IpAddress; the same padded
\* to fill or overflow the caller's buffer or to fall one byte short of it;
\* or a datagram that is no response PDU (a trap).
AgentReplies(m) ==
    {Datagram(AgentResponse(m, v), BufSize \div 100) :
        v \in {wireInteger, wireCounter32, wireIpAddress}}
    \cup {Datagram(AgentResponse(m, wireInteger), size) :
            size \in {BufSize - 1, BufSize, BufSize + 1}}
    \cup {Datagram(Message(7, m.Data[1], 0, 0, <<>>), BufSize \div 100)}

RemoveAt(q, i) == [j \in 1..(Len(q) - 1) |-> IF j < i THEN q[j] ELSE q[j + 1]]

\* The agent answers one of the requests it has received, in any order.
AgentReply ==
    \E i \in 1..Len(wire) : \E r \in AgentReplies(wire[i]) :
        /\ wire' = RemoveAt(wire, i)
        /\ inbox' = Append(inbox, r)
        /\ UNCHANGED <<pc, rq, buf, ret, ops, unm, chk, lessVars, checkVars, auxVars>>

\* The requests callers make.
AllTypes == Types \cup {"Set"}
RTBindings ==
    {<<>>,
     <<Binding(sysDescr, wireInteger)>>,
     <<Binding(sysName, null), Binding(sysUpTime, wireCounter32)>>,
     <<Binding(<<1>>, null)>>}
Requests ==
    {Request(id, t, bs, nr, mr) :
        id \in RequestIDs, t \in AllTypes, bs \in RTBindings,
        nr \in {0, 1}, mr \in {0, 10}}
\* The requests of callers that share a connection.
SharedRequests ==
    {Request(id, t, bs, 0, 10) :
        id \in RequestIDs, t \in AllTypes,
        bs \in {<<Binding(sysDescr, wireInteger)>>, <<Binding(<<1>>, null)>>}}

InitRT(reqs, callers) ==
    /\ rq \in [Callers -> reqs]
    /\ \A c \in Callers \ callers : rq[c] = CHOOSE r \in reqs : TRUE
    /\ pc = [c \in Callers |-> IF c \in callers THEN "start" ELSE "off"]
    /\ buf = [c \in Callers |-> NoMessage]
    /\ ret = [c \in Callers |-> NoReturn]
    /\ ops = [c \in Callers |-> <<>>]
    /\ unm = [c \in Callers |-> <<>>]
    /\ chk = [c \in Callers |-> NotRun]
    /\ wire = <<>>
    /\ inbox = <<>>

IdleRT == InitRT({Request(1, "Get", <<>>, 0, 0)}, {})

RoundTrip(c) ==
    \/ RTEncode(c)
    \/ RTWrite(c)
    \/ RTWriteFails(c)
    \/ RTSetReadDeadline(c)
    \/ RTSetReadDeadlineFails(c)
    \/ RTRead(c)
    \/ RTReadFails(c)
    \/ RTDecode(c)

\* The caller validates the Response RoundTrip returned against the Request
\* it passed: check(resp, req).
RTCheck(c) ==
    /\ ret[c].outcome = "response"
    /\ chk[c] = NotRun
    /\ chk' = [chk EXCEPT ![c] = check(ret[c].resp[1], rq[c])]
    /\ UNCHANGED <<pc, rq, buf, ret, ops, wire, inbox, unm,
                   lessVars, checkVars, auxVars>>

\* ------------------------------------------------------------------ nextID

\* The producer generates at most MaxDraws values.
MaxDraws == 3
\* Values rand.Int31 may give: non-negative, below 2^31.
IDValues == {0, 1, 2147483647}
Receivers == {1, 2}

InitID ==
    /\ idGen = <<>>
    /\ idPending = <<>>
    /\ idGot = [r \in Receivers |-> <<>>]

IdleID == InitID

\* The producer evaluates rand.Int31() and starts the send nextID <- v; it
\* does so again only after the send has completed.
Generate ==
    /\ idPending = <<>>
    /\ Len(idGen) < MaxDraws
    /\ \E v \in IDValues :
          /\ idGen' = Append(idGen, v)
          /\ idPending' = <<v>>
    /\ UNCHANGED <<idGot, lessVars, checkVars, rtVars, tsVars, ccVars>>

\* A mutant of Deliver: the value stays with the producer after the receive.
DeliverKeeps(r) ==
    /\ idPending # <<>>
    /\ Len(idGot[r]) < Len(idGen)
    /\ idGot' = [idGot EXCEPT ![r] =
                    Append(@, [draw |-> Len(idGen), id |-> Head(idPending)])]
    /\ UNCHANGED <<idGen, idPending, lessVars, checkVars, rtVars, tsVars, ccVars>>

\* The unbuffered channel hands the value of the blocked send to one
\* receiver's <-nextID, and the send completes.
Deliver(r) ==
    /\ idPending # <<>>
    /\ idGot' = [idGot EXCEPT ![r] =
                    Append(@, [draw |-> Len(idGen) - Len(idPending) + 1,
                               id |-> Head(idPending)])]
    /\ idPending' = Tail(idPending)
    /\ UNCHANGED <<idGen, lessVars, checkVars, rtVars, tsVars, ccVars>>

\* ---------------------------------------------------------------- toString

\* The byte strings converted carry at most MaxStrLen bytes after the first.
MaxStrLen == 3
ByteValues == {0, 1, 2, 3, 4, 31, 32, 65, 126, 127, 255}
\* Two byte strings of 256 bytes: a length byte and 255 letters.
LongInputs == {<<n>> \o [i \in 1..255 |-> 65] : n \in {254, 255}}

Failure == [ok |-> FALSE, s |-> <<>>]

\* The loop of toString over x[1:]: it returns at the first byte below
\* 0x20 or above 0x7e, and otherwise copies every byte to buf.
toStringLoop(x) ==
    IF \E i \in 2..Len(x) : x[i] < 32 \/ x[i] > 126 THEN Failure
    ELSE [ok |-> TRUE, s |-> [i \in 1..(Len(x) - 1) |-> x[i + 1]]]

\* A mutant of toString: the loop has no lower bound.
toStringNoLower(x) ==
    IF Len(x) = 0 THEN Failure
    ELSE IF x[1] # Len(x) - 1 THEN Failure
    ELSE IF \E i \in 2..Len(x) : x[i] > 126 THEN Failure
    ELSE [ok |-> TRUE, s |-> [i \in 1..(Len(x) - 1) |-> x[i + 1]]]

\* A mutant of toString: the declared length is not compared.
toStringNoLength(x) ==
    IF Len(x) = 0 THEN Failure
    ELSE toStringLoop(x)

\* toString(x): the string (as its bytes) and ok.
toString(x) ==
    IF Len(x) = 0 THEN Failure
    ELSE IF x[1] # Len(x) - 1 THEN Failure
    ELSE toStringLoop(x)

InitTS ==
    /\ tsIn \in SeqsUpTo(ByteValues, MaxStrLen + 1) \cup LongInputs
    /\ tsOut = NotRun

IdleTS ==
    /\ tsIn = <<>>
    /\ tsOut = NotRun

\* convertType hands a []byte to toString.
ConvertType ==
    /\ tsOut = NotRun
    /\ tsOut' = [outcome |-> "done", ok |-> toString(tsIn).ok,
                 s |-> toString(tsIn).s]
    /\ UNCHANGED <<tsIn, lessVars, checkVars, rtVars, idVars, ccVars>>

\* ------------------------------------------------------------ convertClass

\* Raw values have tags 0..MaxTag.
MaxTag == 6
\* The values v can point to: those the decoder produces (FullBytes holds
\* the encoding, identifier octet first) and those built from Class and Tag
\* alone, as the package builds its reserved values.
RawValues ==
    {RawValue(c, t, content) :
        c \in 0..3, t \in 0..MaxTag, content \in {<<>>, <<7>>, <<1, 2>>}}
    \cup {[Class |-> c, Tag |-> t, FullBytes |-> <<>>] :
            c \in 0..3, t \in 0..MaxTag}

InitCC ==
    /\ ccIn \in RawValues
    /\ ccOut = NotRun

IdleCC ==
    /\ ccIn = null
    /\ ccOut = NotRun

\* convertClass(&v) is called on a value, and then again on the result.
Normalize ==
    /\ ccOut = NotRun
    /\ ccOut' = [outcome |-> IF convertClassPanics(ccIn) THEN "panic" ELSE "done",
                 once |-> convertClass(ccIn),
                 twice |-> convertClass(convertClass(ccIn))]
    /\ UNCHANGED <<ccIn, lessVars, checkVars, rtVars, idVars, tsVars>>

IdleAux == IdleID /\ IdleTS /\ IdleCC

\* ----------------------------------------------------------- specifications

\* The comparator on its own.
LessInit == InitLess /\ IdleCheck /\ IdleRT /\ IdleAux
NextLess == Compare
SpecLess == LessInit /\ [][NextLess]_vars

\* The validator on its own.
CheckInit == InitCheck /\ IdleLess /\ IdleRT /\ IdleAux
NextCheck == Check
SpecCheck == CheckInit /\ [][NextCheck]_vars

\* Two callers share one Transport and its agent.
Init == InitRT(SharedRequests, Callers) /\ IdleLess /\ IdleCheck /\ IdleAux
Next ==
    \/ \E c \in Callers : RoundTrip(c)
    \/ \E c \in Callers : \E i \in 1..MaxReqBindings :
          \E t \in {"int", "[]byte"} : Unmarshal(c, i, t)
    \/ AgentReply
    \/ \E c \in Callers : RTCheck(c)
Spec == Init /\ [][Next]_vars

\* One caller has the Transport to itself.
SingleInit ==
    InitRT(Requests, {1}) /\ IdleLess /\ IdleCheck /\ IdleAux
SpecSingle == SingleInit /\ [][Next]_vars

\* The request-ID source with its receivers.
IDInit == InitID /\ IdleTS /\ IdleCC /\ IdleLess /\ IdleCheck /\ IdleRT
NextID == Generate \/ \E r \in Receivers : Deliver(r)
SpecID == IDInit /\ [][NextID]_vars

\* toString on its own.
TSInit == InitTS /\ IdleID /\ IdleCC /\ IdleLess /\ IdleCheck /\ IdleRT
NextTS == ConvertType
SpecToString == TSInit /\ [][NextTS]_vars

\* convertClass on its own.
CCInit == InitCC /\ IdleID /\ IdleTS /\ IdleLess /\ IdleCheck /\ IdleRT
NextCC == Normalize
SpecConvert == CCInit /\ [][NextCC]_vars

\* ------------------------------------------------------------------- claims

CheckRan == checkOut.outcome # "not run"
LessRan  == lessOut.outcome # "not run"

\* The error text check builds from a message alone, wrapped.
InvalidResponse(msg) ==
    [outcome |-> "error", marker |-> "invalid response", binding |-> <<>>,
     name |-> <<>>, msg |-> msg, text |-> ""]

Exceptional(v) == <<v.Class, v.Tag>> \in {<<2, 0>>, <<2, 1>>, <<2, 2>>, <<0, 5>>}
ExceptionText(v) ==
    CASE <<v.Class, v.Tag>> = <<2, 0>> -> "no such object"
      [] <<v.Class, v.Tag>> = <<2, 1>> -> "no such instance"
      [] <<v.Class, v.Tag>> = <<2, 2>> -> "end of mib view"
      [] <<v.Class, v.Tag>> = <<0, 5>> -> "unexpected null"
Under13(name) == Len(name) >= 2 /\ name[1] = 1 /\ name[2] = 3
Offending(b) == Exceptional(b.Value) \/ ~Under13(b.Name)

\* C1: whenever resp.ID differs from req.ID, check returns exactly the
\* wrapped id-mismatch error, whatever the other fields are.
C1_IdMismatch ==
    (CheckRan /\ cresp.ID # creq.ID) => checkOut = InvalidResponse("id mismatch")

\* C1 witness: an id mismatch on a response that also carries an error
\* status and an error index past the request's bindings.
C1_Witness ==
    /\ CheckRan /\ cresp.ID # creq.ID
    /\ cresp.ErrorStatus # 0
    /\ cresp.ErrorIndex >= Len(creq.Bindings)
    /\ cresp.ErrorIndex < Len(cresp.Bindings)
    /\ checkOut.msg = "id mismatch"

\* C2: with matching id and a non-zero error status, check always returns
\* a server error carrying the status text, naming the request binding at
\* error_index when 0 <= error_index < len(resp.Bindings); it never aborts.
C2_ServerErrorNeverAborts ==
    (CheckRan /\ cresp.ID = creq.ID /\ cresp.ErrorStatus # 0) =>
        /\ checkOut.outcome = "error"
        /\ checkOut.marker = "invalid response"
        /\ checkOut.msg = "server error"
        /\ checkOut.text = errorStatusString(cresp.ErrorStatus)
        /\ checkOut.binding =
              IF cresp.ErrorIndex >= 0 /\ cresp.ErrorIndex < Len(cresp.Bindings)
              THEN <<creq.Bindings[cresp.ErrorIndex + 1]>>
              ELSE <<>>

\* C3: a response with matching id, status 0, only well-formed bindings and
\* strictly more bindings than the request is accepted for GetBulk and is
\* rejected as "extraneous bindings" for Get and GetNext.
C3_BulkMayExceed ==
    (/\ CheckRan /\ cresp.ID = creq.ID /\ cresp.ErrorStatus = 0
     /\ \A i \in 1..Len(cresp.Bindings) : ~Offending(cresp.Bindings[i])
     /\ Len(cresp.Bindings) > Len(creq.Bindings)) =>
        IF creq.Type = "GetBulk" THEN checkOut = Nil
        ELSE checkOut = InvalidResponse("extraneous bindings")

\* C3 witness: a GetBulk answer with more bindings than asked for, accepted.
C3_Witness ==
    /\ CheckRan /\ creq.Type = "GetBulk" /\ cresp.ID = creq.ID
    /\ Len(creq.Bindings) >= 1
    /\ Len(cresp.Bindings) > Len(creq.Bindings)
    /\ checkOut.outcome = "nil"

\* The response passes the id, error-status and binding-count rules.
PassesCountRules ==
    /\ cresp.ID = creq.ID /\ cresp.ErrorStatus = 0
    /\ Len(cresp.Bindings) >= 1
    /\ Len(cresp.Bindings) >= Len(creq.Bindings)
    /\ (Len(cresp.Bindings) > Len(creq.Bindings) => creq.Type = "GetBulk")

FirstOffending ==
    CHOOSE k \in 1..Len(cresp.Bindings) :
        /\ Offending(cresp.Bindings[k])
        /\ \A j \in 1..(k - 1) : ~Offending(cresp.Bindings[j])

\* C4: a response that passes the id, status and count rules and has a
\* binding with an exceptional value or a name outside 1.3 is rejected; the
\* error names the first such binding in wire order and reports its
\* exceptional value in preference to its missing prefix.
C4_FirstOffendingBinding ==
    (/\ CheckRan /\ PassesCountRules
     /\ \E i \in 1..Len(cresp.Bindings) : Offending(cresp.Bindings[i])) =>
        LET b == cresp.Bindings[FirstOffending]
        IN  /\ checkOut.outcome = "error"
            /\ checkOut.marker = "invalid response"
            /\ checkOut.name = <<b.Name>>
            /\ checkOut.binding = <<>>
            /\ checkOut.msg = IF Exceptional(b.Value) THEN ExceptionText(b.Value)
                              ELSE "missing [1 3] prefix"

\* C4 witness: the second binding is the first offending one, and it has
\* both a null value and a name too short for the prefix.
C4_Witness ==
    /\ CheckRan /\ PassesCountRules
    /\ Len(cresp.Bindings) = 2
    /\ ~Offending(cresp.Bindings[1])
    /\ Exceptional(cresp.Bindings[2].Value)
    /\ Len(cresp.Bindings[2].Name) < 2
    /\ checkOut.msg = "unexpected null"

StrictPrefix(x, y) ==
    Len(x) < Len(y) /\ \A i \in 1..Len(x) : x[i] = y[i]

\* Lexicographic order on identifier sequences.
LexLess(x, y) ==
    \E k \in 0..Len(x) :
        /\ k <= Len(y)
        /\ \A i \in 1..k : x[i] = y[i]
        /\ \/ k = Len(x) /\ k < Len(y)
           \/ k < Len(x) /\ k < Len(y) /\ x[k + 1] < y[k + 1]

\* C8: less(a,b) and less(b,a) are never both true, and when a's identifier
\* is a strict prefix of b's, less(a,b) is true and less(b,a) is false.
C8_Antisymmetric ==
    LessRan =>
        /\ ~(lessOut.ab = "true" /\ lessOut.ba = "true")
        /\ ~(lessOut.bc = "true" /\ lessOut.cb = "true")
        /\ (StrictPrefix(la.Name, lb.Name) =>
                lessOut.ab = "true" /\ lessOut.ba = "false")
        /\ (StrictPrefix(lc.Name, lb.Name) =>
                lessOut.cb = "true" /\ lessOut.bc = "false")

\* C8 witness: a non-empty identifier compared with an extension of it.
C8_Witness ==
    /\ LessRan /\ Len(la.Name) >= 1 /\ StrictPrefix(la.Name, lb.Name)
    /\ lessOut.ab = "true" /\ lessOut.ba = "false"

\* C9: less is a strict weak ordering decided by the identifiers alone:
\* irreflexive, transitive, incomparable exactly on equal identifiers, equal
\* to the lexicographic order, and it never panics.
C9_StrictWeakOrder ==
    LessRan =>
        /\ \A f \in {"aa", "ab", "ba", "bc", "cb", "ac", "ca"} :
              lessOut[f] \in {"true", "false"}
        /\ lessOut.aa = "false"
        /\ (lessOut.ab = "true" /\ lessOut.bc = "true" => lessOut.ac = "true")
        /\ ((lessOut.ab = "false" /\ lessOut.ba = "false") <=> la.Name = lb.Name)
        /\ ((lessOut.ac = "false" /\ lessOut.ca = "false") <=> la.Name = lc.Name)
        /\ (lessOut.ab = "true" <=> LexLess(la.Name, lb.Name))
        /\ (lessOut.ba = "true" <=> LexLess(lb.Name, la.Name))
        /\ (lessOut.bc = "true" <=> LexLess(lb.Name, lc.Name))
        /\ (lessOut.ca = "true" <=> LexLess(lc.Name, la.Name))

\* C9 witness: a chain a < b < c where the middle identifier is shorter than
\* both others, with bindings of different values.
C9_Witness ==
    /\ LessRan
    /\ lessOut.ab = "true" /\ lessOut.bc = "true" /\ lessOut.ac = "true"
    /\ Len(la.Name) > Len(lb.Name) /\ Len(lc.Name) > Len(lb.Name)
    /\ la.Value # lb.Value

\* The PDU tag of an operation kind.
KindTag(t) ==
    CASE t = "Get" -> 0 [] t = "GetNext" -> 1 [] t = "GetBulk" -> 5

\* Caller c's Write succeeded and the packet it wrote is still in buf.
Wrote(c) == pc[c] = "deadline"

\* C5: the PDU written to the transport has the request's id, the tag of
\* its kind and its binding names in order; Get and GetNext carry
\* errorStatus 0 and errorIndex 0, and GetBulk carries the request's
\* non_repeaters and max_repetitions.
C5_PduPreservesRequest ==
    \A c \in Callers :
        Wrote(c) =>
            /\ buf[c].Data[1] = rq[c].ID
            /\ buf[c].Tag = KindTag(rq[c].Type)
            /\ Len(buf[c].Bindings) = Len(rq[c].Bindings)
            /\ \A i \in 1..Len(rq[c].Bindings) :
                  buf[c].Bindings[i].Name = rq[c].Bindings[i].Name
            /\ (rq[c].Type \in {"Get", "GetNext"} =>
                  buf[c].Data[2] = 0 /\ buf[c].Data[3] = 0)
            /\ (rq[c].Type = "GetBulk" =>
                  /\ buf[c].Data[2] = rq[c].NonRepeaters
                  /\ buf[c].Data[3] = rq[c].MaxRepetitions)

\* C6: a call that returns a Response returns the one whose ID is the ID of
\* its own request, in every interleaving of two calls on one Transport.
C6_OwnReply ==
    \A c \in Callers :
        ret[c].outcome = "response" => ret[c].resp[1].ID = rq[c].ID

\* The operations a call may have made on the connection so far: Write,
\* then SetReadDeadline, then Read, each once and each only after the one
\* before it succeeded.
CallLogs ==
    {<<>>,
     <<Op("Write", FALSE)>>,
     <<Op("Write", TRUE)>>,
     <<Op("Write", TRUE), Op("SetReadDeadline", FALSE)>>,
     <<Op("Write", TRUE), Op("SetReadDeadline", TRUE)>>,
     <<Op("Write", TRUE), Op("SetReadDeadline", TRUE), Op("Read", FALSE)>>,
     <<Op("Write", TRUE), Op("SetReadDeadline", TRUE), Op("Read", TRUE)>>}
FullLog == <<Op("Write", TRUE), Op("SetReadDeadline", TRUE), Op("Read", TRUE)>>

Ended(c) == pc[c] = "done"
Failed(c) ==
    /\ Ended(c) /\ ret[c].outcome = "error" /\ ret[c].resp = <<>>

\* C7: a call makes at most one Write and at most one Read, the Read only
\* after the Write succeeded and the deadline was set, and a call that
\* returns a Response made exactly one of each; a failure of encode, Write,
\* SetReadDeadline, Read or decode ends the call with an error and no
\* Response, with no transport operation after it.
C7_OneSendOneReceive ==
    \A c \in Callers :
        /\ ops[c] \in CallLogs
        /\ (ret[c].outcome = "response" => Ended(c) /\ ops[c] = FullLog)
        /\ (ops[c] # <<>> /\ ~ops[c][Len(ops[c])].ok => Failed(c))
        /\ (Ended(c) /\ ops[c] = <<>> =>
                Failed(c) /\ ret[c].err = "invalid object identifier")
        /\ (ret[c].err = "invalid object identifier" =>
                Failed(c) /\ ops[c] = <<>>)
        /\ (ret[c].err \in {"asn1: structure error", "response too big"} =>
                Failed(c) /\ ops[c] = FullLog)
        /\ (Ended(c) => ret[c].outcome \in {"response", "error"})
        /\ (ret[c].outcome = "error" => Ended(c))

\* C7 witness: one caller's Read has failed after its Write and deadline,
\* while the other caller's call has returned a Response.
C7_Witness ==
    \E c, d \in Callers :
        /\ c # d
        /\ Failed(c) /\ Len(ops[c]) = 3 /\ ~ops[c][3].ok
        /\ ret[d].outcome = "response" /\ ops[d] = FullLog

AppClass(v) == v.Class = 1 /\ v.Tag \in {0, 1, 2, 3, 4, 6}

\* C10: every value of a Response returned by RoundTrip went through class
\* normalization in the decode step, so that no binding of a returned
\* Response has a value of application class 1 with tag 0, 1, 2, 3, 4 or 6.
C10_ReturnedValuesNormalized ==
    \A c \in Callers :
        ret[c].outcome = "response" =>
            \A i \in 1..Len(ret[c].resp[1].Bindings) :
                ~AppClass(ret[c].resp[1].Bindings[i].Value)

\* The encoding of the universal Null.
NullBytes == <<5, 0>>
AllNull(bs) == \A i \in 1..Len(bs) : bs[i].Value = null
AllNullBytes(m) == \A i \in 1..Len(m.Bindings) : m.Bindings[i].Value = NullBytes

\* From its first step on, the call has made every value of its request null,
\* and whatever it has encoded or written carries only nulls.
NullsEverywhere ==
    /\ \A c \in Callers :
          /\ pc[c] \notin {"start", "off"} => AllNull(rq[c].Bindings)
          /\ pc[c] \in {"write", "deadline"} => AllNullBytes(buf[c])
    /\ \A k \in 1..Len(wire) : AllNullBytes(wire[k])

\* No step changes anything of a request but its bindings' values.
RequestFrame ==
    \A c \in Callers :
        /\ rq'[c].ID = rq[c].ID
        /\ rq'[c].Type = rq[c].Type
        /\ rq'[c].NonRepeaters = rq[c].NonRepeaters
        /\ rq'[c].MaxRepetitions = rq[c].MaxRepetitions
        /\ Len(rq'[c].Bindings) = Len(rq[c].Bindings)
        /\ \A i \in 1..Len(rq[c].Bindings) :
              rq'[c].Bindings[i].Name = rq[c].Bindings[i].Name

\* C11: RoundTrip overwrites every request binding's value with Null before
\* anything is encoded or written, so that during and after the call, however
\* it ends, every value is Null; the request's ID, Type, NonRepeaters,
\* MaxRepetitions, binding count and binding names in order never change.
C11_NullBeforeEncode == []NullsEverywhere /\ [][RequestFrame]_vars

\* C11 witness: a call on a request of two bindings, one of which had a
\* Counter32 value, has ended with an error and both values are null.
C11_Witness ==
    /\ pc[1] = "done" /\ ret[1].outcome = "error"
    /\ Len(rq[1].Bindings) = 2 /\ AllNull(rq[1].Bindings)
    /\ rq[1].NonRepeaters = 1 /\ rq[1].Type = "GetBulk"

\* ---- nextID

\* The draws whose send has completed.
Delivered == Len(idGen) - Len(idPending)
\* The receives, by any receiver, that returned the value of draw d.
Receipts(d) ==
    {<<r, k>> \in Receivers \X (1..Len(idGen)) :
        k <= Len(idGot[r]) /\ idGot[r][k].draw = d}

\* C12: with the one producer and any receivers in any interleaving, every
\* value the producer has generated and handed over was received by exactly
\* one receiver, exactly once, and as generated; a value not yet handed over
\* was received by nobody; the producer holds at most one undelivered value.
C12_EachIDDeliveredOnce ==
    /\ Len(idPending) <= 1
    /\ \A d \in 1..Len(idGen) :
          /\ Cardinality(Receipts(d)) = IF d <= Delivered THEN 1 ELSE 0
          /\ \A h \in Receipts(d) : idGot[h[1]][h[2]].id = idGen[d]
    /\ \A r \in Receivers : \A k \in 1..Len(idGot[r]) :
          idGot[r][k].draw \in 1..Len(idGen)

\* C12 witness: the producer drew the same number twice running, one
\* receiver got the first and the other the second, and a third value waits.
C12_Witness ==
    /\ Len(idGen) >= 3 /\ idGen[1] = idGen[2] /\ Len(idPending) = 1
    /\ Len(idGot[1]) = 1 /\ Len(idGot[2]) = 1
    /\ idGot[1][1].draw = 2 /\ idGot[2][1].draw = 1

\* ---- convertClass

ConvertRan == ccOut.outcome # "not run"
OctetTags == {0, 4}
IntegerTags == {1, 2, 3, 6}
\* What one application is said to do to the value v, giving w.
MapsAsStated(v, w) ==
    /\ v.Class = 1 /\ v.Tag \in OctetTags =>
          w.Class = 0 /\ w.Tag = 4 /\ w.FullBytes[1] = 4
    /\ v.Class = 1 /\ v.Tag \in IntegerTags =>
          w.Class = 0 /\ w.Tag = 2 /\ w.FullBytes[1] = 2
    /\ ~(v.Class = 1 /\ v.Tag \in OctetTags \cup IntegerTags) => w = v
    /\ Len(w.FullBytes) = Len(v.FullBytes)
    /\ \A i \in 2..Len(v.FullBytes) : w.FullBytes[i] = v.FullBytes[i]
Idempotent == ccOut.twice = ccOut.once

ConvertTypeRan == tsOut.outcome = "done"
Printable(b) == b \in 32..126
LengthPrefixedText(x) ==
    /\ Len(x) >= 1
    /\ x[1] = Len(x) - 1
    /\ \A i \in 2..Len(x) : Printable(x[i])

\* C14: toString of the byte L followed by L printable bytes (L up to 255)
\* gives those bytes and true, and it gives true only for a first byte equal
\* to the number of remaining bytes followed by printable bytes alone.
C14_ToStringRoundTrip ==
    ConvertTypeRan =>
        /\ tsOut.ok <=> LengthPrefixedText(tsIn)
        /\ tsOut.ok => tsOut.s = Tail(tsIn)

\* C14 witness: the byte 255 followed by 255 letters came back as the 255
\* letters.
C14_Witness ==
    /\ ConvertTypeRan /\ tsOut.ok
    /\ Len(tsIn) = 256 /\ tsIn[1] = 255 /\ Len(tsOut.s) = 255

\* C15 as stated: a byte below 0x20 at any position of the input makes
\* toString return ok = false.
C15_ControlAnywhereRejected ==
    (ConvertTypeRan /\ \E i \in 1..Len(tsIn) : tsIn[i] < 32) => ~tsOut.ok

\* C15 amended: a byte below 0x20 at any position after the first (the
\* length byte, which is itself below 0x20 for every text shorter than 32
\* bytes) makes toString return ok = false.
C15_ControlInTextRejected ==
    (ConvertTypeRan /\ \E i \in 2..Len(tsIn) : tsIn[i] < 32) => ~tsOut.ok

\* C15 witness: a correct length byte followed by a letter and the control
\* character 0x1f was refused.
C15_Witness ==
    /\ ConvertTypeRan /\ ~tsOut.ok
    /\ Len(tsIn) = 3 /\ tsIn[1] = 2 /\ tsIn[2] = 65 /\ tsIn[3] = 31

\* ---- RoundTrip: unsupported kinds

Supported(r) == r.Type \in Types

\* C16: a call on a request whose kind is none of Get, GetNext, GetBulk ends
\* in a panic, with no Response and no error returned, and no transport
\* operation was made: nothing was written and nothing was read.
C16_UnsupportedKindPanics ==
    \A c \in Callers :
        ~Supported(rq[c]) =>
            /\ pc[c] \in {"off", "start", "panic"}
            /\ pc[c] = "panic" =>
                  /\ ret[c].outcome = "panic" /\ ret[c].resp = <<>>
                  /\ ops[c] = <<>> /\ buf[c] = NoMessage
                  /\ wire = <<>> /\ inbox = <<>>

\* C16 witness: a call with a Set request of two bindings has panicked.
C16_Witness ==
    /\ pc[1] = "panic" /\ rq[1].Type = "Set" /\ Len(rq[1].Bindings) = 2
    /\ ret[1].outcome = "panic"

\* ---- check: the order of the rules

\* C17: check reports the first rule violated in the order id, error status,
\* binding count, binding content: an id mismatch first; with the id matching,
\* a non-zero error status as the server error; with both in order, zero
\* bindings as "no bindings" whatever the request, and at least one but fewer
\* than the request's as "missing bindings".
C17_FirstViolatedRuleReported ==
    CheckRan =>
        IF cresp.ID # creq.ID
        THEN checkOut = InvalidResponse("id mismatch")
        ELSE IF cresp.ErrorStatus # 0
        THEN /\ checkOut.outcome = "error"
             /\ checkOut.marker = "invalid response"
             /\ checkOut.msg = "server error"
        ELSE /\ Len(cresp.Bindings) = 0 => checkOut = InvalidResponse("no bindings")
             /\ (Len(cresp.Bindings) >= 1
                 /\ Len(cresp.Bindings) < Len(creq.Bindings)) =>
                   checkOut = InvalidResponse("missing bindings")

\* C18: check returns nil exactly when the id matches, the error status is
\* 0, the binding counts are in order and no binding offends; in every other
\* case it returns an error, and every error carries the marker.
C18_NilExactlyWhenValid ==
    CheckRan =>
        LET valid == /\ PassesCountRules
                     /\ \A k \in 1..Len(cresp.Bindings) :
                           ~Offending(cresp.Bindings[k])
        IN  /\ checkOut = Nil <=> valid
            /\ ~valid => checkOut.outcome = "error"
            /\ checkOut.outcome = "error" => checkOut.marker = "invalid response"

\* ---- RoundTrip: the receive buffer

\* What a step that ends caller c's Read does, by the outcome of the Read
\* and the size of the datagram it took.
ReadStep(c) ==
    (pc[c] = "read" /\ pc'[c] # "read") =>
        IF ops'[c][Len(ops'[c])].ok
        THEN IF Head(inbox).size >= BufSize
             THEN /\ pc'[c] = "done"
                  /\ ret'[c] = ReturnErr("response too big")
             ELSE /\ pc'[c] = "decode"
                  /\ buf'[c] = Head(inbox).msg
                  /\ ret'[c] = NoReturn
        ELSE /\ pc'[c] = "done"
             /\ ret'[c] = ReturnErr("read error")

\* C19: a Read that returns without error having filled the 10000-byte
\* buffer ends the call with "response too big" and no Response; one that
\* returned fewer bytes hands exactly the datagram read to the decoder; a
\* Read error is returned as it is, nothing being decoded; and no other
\* path gives "response too big".
C19_TooBigExactlyWhenFull ==
    /\ [][\A c \in Callers : ReadStep(c)]_vars
    /\ [](\A c \in Callers :
            ret[c].err = "response too big" =>
                /\ pc[c] = "done" /\ ret[c].resp = <<>> /\ ops[c] = FullLog)

\* C19 witness: a call ended with "response too big" after one successful
\* Read.
C19_Witness ==
    /\ pc[1] = "done" /\ ret[1] = ReturnErr("response too big")
    /\ ops[1] = FullLog

\* ---- two callers, RoundTrip then check

Other(c) == CHOOSE d \in Callers : d # c
CheckedReply(c) == chk[c] # NotRun
\* The Response caller c got answers the other caller's request.
Swapped(c) == ret[c].resp[1].ID = rq[Other(c)].ID

\* C20: with distinct request ids, a caller's check of a Response that the
\* agent produced for the other caller's request gives the id-mismatch
\* error, and a check that succeeded was of a Response with the caller's
\* own id.
C20_SwappedReplyRejected ==
    rq[1].ID # rq[2].ID =>
        \A c \in Callers :
            CheckedReply(c) =>
                /\ Swapped(c) => chk[c] = InvalidResponse("id mismatch")
                /\ chk[c] = Nil => ret[c].resp[1].ID = rq[c].ID

\* C20 witness: caller 1 read the reply to caller 2's request, which would
\* pass every other rule, and its check refused it for the id.
C20_Witness ==
    /\ rq[1].ID # rq[2].ID
    /\ CheckedReply(1) /\ Swapped(1)
    /\ chk[1] = InvalidResponse("id mismatch")
    /\ ret[1].resp[1].ErrorStatus = 0
    /\ Len(ret[1].resp[1].Bindings) = Len(rq[1].Bindings)
    /\ \A k \in 1..Len(ret[1].resp[1].Bindings) :
          ~Offending(ret[1].resp[1].Bindings[k])

====
